---- MODULE Spec2Model ----
(***************************************************************************)
(* Token lifecycle of the iNaturalist MCP server (src/src/server.ts) and   *)
(* the start-up configuration handling of its command line (src/src/cli.ts)*)
(*                                                                         *)
(* Time is in milliseconds, as Date.now() is; the clock is an offset from  *)
(* an arbitrary origin and is positive, as Date.now() is.                  *)
(* Every `await` on a network request is a point where another tool call   *)
(* may run; the code between two such points is one action.                *)
(***************************************************************************)
EXTENDS Integers, FiniteSets, Sequences, TLC

(* ---------------------------- bounds ----------------------------------- *)

\* total number of tool calls handled in one run
MaxCalls == 2

\* number of clock advances in one run
MaxTicks == 3

\* the tool calls that may be in progress at the same time
Calls == {1, 2}

\* one clock advance, in milliseconds
TickMs == 2 * 1000

\* the expires_in values (seconds) the token endpoint answers with
ExpiresIn == {10, 302, 3600}

(* ---------------------------- values ----------------------------------- *)

\* JavaScript null for a string-valued field
null == [kind |-> "null", age |-> "-"]

\* Tokens are opaque strings the code only stores, installs and tests for
\* presence.  A token is named by its kind and its age: "latest" is the access
\* token of the latest successful password-grant response, "older" one of an
\* earlier response; an api token has the age of the access token that was
\* the bearer of its request.
Latest == "latest"
Older == "older"
AccessTok(age) == [kind |-> "access", age |-> age]
ApiTok(age) == [kind |-> "api", age |-> age]

\* the name of a token once a newer access token has been granted
Aged(tok) == IF tok.kind = "null" THEN tok ELSE [tok EXCEPT !.age = Older]

\* JavaScript null, NaN and finite numbers for a number-valued field
nullNum == [t |-> "null", v |-> 0]
NaN == [t |-> "NaN", v |-> 0]
Num(x) == [t |-> "num", v |-> x]

\* JavaScript truthiness of a number-or-null: null, NaN and 0 are falsy
TruthyNum(x) == x.t = "num" /\ x.v # 0

\* JavaScript truthiness of a token field: null is falsy, a token string is not empty
Truthy(s) == s # null

\* JavaScript truthiness of a configuration string: '' is falsy
TruthyStr(s) == s # ""

\* expires_in absent from the response
undefined == [t |-> "undefined", v |-> 0]

\* the expires_in fields of the responses: a number of seconds, or absent
ExpiresInFields == {Num(e) : e \in ExpiresIn} \cup {undefined}

\* Date.now() + expires_in * 1000 : undefined * 1000 is NaN
ExpiryOf(t, expires_in) ==
  IF expires_in = undefined THEN NaN ELSE Num(t + expires_in.v * 1000)

Fields == {"clientId", "clientSecret", "username", "password"}

\* a value given for a credential field, or the empty string
FieldValues == {"", "x"}

VARIABLES
  phase,        \* "boot", "running" (server started) or "exited" (process.exit(1))
  config,       \* ServerConfig: the four credential fields
  client,       \* this.client: whether it was created, and the bearer installed on it
  tokenCache,   \* this.tokenCache
  userInfo,     \* this.userInfo: "null", "profile" or "minimal"
  now,          \* Date.now()
  call,         \* per tool call in progress: position and locals
  started,      \* tool calls handled so far
  granted       \* the expires_in field of the latest successful password-grant response

vars == <<phase, config, client, tokenCache, userInfo, now, call, started, granted>>

emptyCache == [accessToken |-> null, apiToken |-> null,
               expiresAt |-> nullNum, lastRefresh |-> nullNum]

idleCall == [pc |-> "idle", ctx |-> "-", priv |-> FALSE, nEx |-> 0, failed |-> FALSE,
             tok |-> null, apiFail |-> FALSE, sent |-> FALSE, bearer |-> null,
             out |-> "-", err |-> "-"]

Init ==
  /\ phase = "boot"
  /\ config = [f \in Fields |-> ""]
  /\ client = [made |-> FALSE, token |-> null]
  /\ tokenCache = emptyCache
  /\ userInfo = "null"
  /\ now = TickMs
  /\ call = [c \in Calls |-> idleCall]
  /\ started = 0
  /\ granted = [t |-> "none", v |-> 0]

(* ---------------------------- cli.ts ----------------------------------- *)

\* config.x = config.x || process.env.X (|| '')
Merge(argv, env) == [f \in Fields |-> IF argv[f] # "" THEN argv[f] ELSE env[f]]

hasAnyAuth(cfg) == \E f \in Fields : TruthyStr(cfg[f])
hasCompleteAuth(cfg) == \A f \in Fields : TruthyStr(cfg[f])

\* the variant of main whose parseArgs validates the merged credentials
mainValidating(argv, env) ==
  /\ phase = "boot"
  /\ LET cfg == Merge(argv, env) IN
       IF hasAnyAuth(cfg) /\ ~hasCompleteAuth(cfg)
       THEN /\ phase' = "exited"
            /\ config' = cfg
       ELSE /\ phase' = "running"
            /\ config' = cfg
  /\ UNCHANGED <<client, tokenCache, userInfo, now, call, started, granted>>

\* the variant of main that hands the merged ServerConfig to the server unvalidated
mainServerConfig(argv, env) ==
  /\ phase = "boot"
  /\ config' = Merge(argv, env)
  /\ phase' = "running"
  /\ UNCHANGED <<client, tokenCache, userInfo, now, call, started, granted>>

(* ---------------------------- server.ts -------------------------------- *)

bufferTime == 5 * 60 * 1000

\* isTokenValid with the comparison made inclusive
isTokenValidInclusive(cache, t) ==
  IF ~Truthy(cache.accessToken) \/ ~TruthyNum(cache.expiresAt)
  THEN FALSE
  ELSE t <= cache.expiresAt.v - bufferTime

\* isTokenValid without the buffer
isTokenValidNoBuffer(cache, t) ==
  IF ~Truthy(cache.accessToken) \/ ~TruthyNum(cache.expiresAt)
  THEN FALSE
  ELSE t < cache.expiresAt.v

\* isTokenValid that takes a token without a usable expiry for valid
isTokenValidUnknownExpiry(cache, t) ==
  IF ~Truthy(cache.accessToken)
  THEN FALSE
  ELSE IF ~TruthyNum(cache.expiresAt) THEN TRUE
  ELSE t < cache.expiresAt.v - bufferTime

isTokenValid(cache, t) ==
  IF ~Truthy(cache.accessToken) \/ ~TruthyNum(cache.expiresAt)
  THEN FALSE
  ELSE t < cache.expiresAt.v - bufferTime

\* noOAuth with && for ||
noOAuthBoth(cfg) == ~TruthyStr(cfg["clientId"]) /\ ~TruthyStr(cfg["clientSecret"])

\* !this.config.clientId || !this.config.clientSecret
noOAuth(cfg) == ~TruthyStr(cfg["clientId"]) \/ ~TruthyStr(cfg["clientSecret"])

\* (args && args.method) || 'unknown'
methodOrUnknown(method) == IF TruthyStr(method) THEN method ELSE "unknown"

\* the errors that carry the upstream response: a request answered with an
\* HTTP error status, by the token endpoint or by the API
hasResponse(e) == e \in {"httpErr", "apiHttpErr"}

\* errorMessage of the handler's catch, as the sequence of its parts: the
\* error's message, or for an error with a response 'HTTP <status>:
\* <statusText>' followed by the response data when there is any
errorMessage(e, data) ==
  IF hasResponse(e)
  THEN <<"HTTP ", "status", ": ", "statusText">>
         \o (IF TruthyStr(data) THEN <<"\nResponse: ", data>> ELSE << >>)
  ELSE <<e>>

\* the text of the response the handler's catch returns
ErrorText(tool, method, e, data) ==
  <<"Error calling ", tool, ".", methodOrUnknown(method), ": ">> \o errorMessage(e, data)

\* the handler's catch rethrowing instead of answering
FailThrows(c, e) == [call EXCEPT ![c] = [idleCall EXCEPT !.pc = "done", !.out = "thrown", !.err = e]]

\* the handler's catch: the call is answered with 'Error calling ...: <message>'
Fail(c, e) == [call EXCEPT ![c] = [idleCall EXCEPT !.pc = "done", !.out = "error", !.err = e]]

\* refreshAccessToken up to its first await: post_oauth_token is sent
SendExchange(c, ctx) ==
  call' = [call EXCEPT ![c].pc = "oauth", ![c].ctx = ctx, ![c].nEx = @ + 1,
                       ![c].apiFail = FALSE]

\* a call goes on after refreshAccessToken returned normally, or after
\* ensureAuthentication caught its error: to ensureValidToken when the refresh
\* was ensureAuthentication's, past it when it was ensureValidToken's
AfterRefresh(c, apiFail) ==
  [call EXCEPT ![c].pc = IF call[c].ctx = "auth" THEN "ensureValid" ELSE "validate",
               ![c].ctx = "-", ![c].tok = null, ![c].apiFail = apiFail]

\* CallTool whose ensureClient creates a client for every call
CallToolNewClient(c, found) ==
  /\ phase = "running"
  /\ call[c].pc \in {"idle", "done"}
  /\ \A d \in Calls : d < c => call[d].pc \notin {"idle", "done"}
  /\ started < MaxCalls
  /\ started' = started + 1
  /\ IF ~found
     THEN /\ call' = [call EXCEPT ![c] = [idleCall EXCEPT !.pc = "done", !.out = "thrown",
                                                          !.err = "toolNotFound"]]
          /\ UNCHANGED client
     ELSE IF ~noOAuth(config) /\ (~TruthyStr(config["username"]) \/ ~TruthyStr(config["password"]))
     THEN /\ call' = Fail(c, "config")
          /\ UNCHANGED client
     ELSE /\ client' = [made |-> TRUE, token |-> null]
          /\ IF noOAuth(config)
                \/ (isTokenValid(tokenCache, now) /\ Truthy(tokenCache.accessToken)
                                                  /\ Truthy(tokenCache.apiToken))
             THEN call' = [call EXCEPT ![c] = [idleCall EXCEPT !.pc = "ensureValid"]]
             ELSE call' = [call EXCEPT ![c] = [idleCall EXCEPT !.pc = "oauth", !.ctx = "auth",
                                                               !.nEx = 1]]
  /\ UNCHANGED <<phase, config, tokenCache, userInfo, now, granted>>

\* CallTool whose ensureClient does not look at username and password
CallToolAnyGrant(c, found) ==
  /\ phase = "running"
  /\ call[c].pc \in {"idle", "done"}
  /\ \A d \in Calls : d < c => call[d].pc \notin {"idle", "done"}
  /\ started < MaxCalls
  /\ started' = started + 1
  /\ IF ~found
     THEN /\ call' = [call EXCEPT ![c] = [idleCall EXCEPT !.pc = "done", !.out = "thrown",
                                                          !.err = "toolNotFound"]]
          /\ UNCHANGED client
     ELSE IF client.made
     THEN /\ call' = [call EXCEPT ![c] = [idleCall EXCEPT !.pc = "ensureValid"]]
          /\ UNCHANGED client
     ELSE /\ client' = [made |-> TRUE, token |-> null]
          /\ IF noOAuth(config)
                \/ (isTokenValid(tokenCache, now) /\ Truthy(tokenCache.accessToken)
                                                  /\ Truthy(tokenCache.apiToken))
             THEN call' = [call EXCEPT ![c] = [idleCall EXCEPT !.pc = "ensureValid"]]
             ELSE call' = [call EXCEPT ![c] = [idleCall EXCEPT !.pc = "oauth", !.ctx = "auth",
                                                               !.nEx = 1]]
  /\ UNCHANGED <<phase, config, tokenCache, userInfo, now, granted>>

\* the tools/call handler up to its first suspension: ensureClient and,
\* for a new client, ensureAuthentication
CallTool(c, found) ==
  /\ phase = "running"
  /\ call[c].pc \in {"idle", "done"}
  /\ \A d \in Calls : d < c => call[d].pc \notin {"idle", "done"}
  /\ started < MaxCalls
  /\ started' = started + 1
  /\ IF ~found
     THEN \* McpError(MethodNotFound) is thrown by the handler
          /\ call' = [call EXCEPT ![c] = [idleCall EXCEPT !.pc = "done", !.out = "thrown",
                                                          !.err = "toolNotFound"]]
          /\ UNCHANGED client
     ELSE IF client.made
     THEN /\ call' = [call EXCEPT ![c] = [idleCall EXCEPT !.pc = "ensureValid"]]
          /\ UNCHANGED client
     ELSE IF ~noOAuth(config) /\ (~TruthyStr(config["username"]) \/ ~TruthyStr(config["password"]))
     THEN /\ call' = Fail(c, "config")
          /\ UNCHANGED client
     ELSE /\ client' = [made |-> TRUE, token |-> null]
          /\ IF noOAuth(config)
                \/ (isTokenValid(tokenCache, now) /\ Truthy(tokenCache.accessToken)
                                                  /\ Truthy(tokenCache.apiToken))
             THEN call' = [call EXCEPT ![c] = [idleCall EXCEPT !.pc = "ensureValid"]]
             ELSE call' = [call EXCEPT ![c] = [idleCall EXCEPT !.pc = "oauth", !.ctx = "auth",
                                                               !.nEx = 1]]
  /\ UNCHANGED <<phase, config, tokenCache, userInfo, now, granted>>

\* the answers of the token endpoint that are failures: a network error, an
\* HTTP error status, a response without access_token
OAuthFailures == {"netErr", "httpErr", "noAccessToken"}

\* OAuthFailed that resets the token cache
OAuthFailedClears(c, resp) ==
  /\ call[c].pc = "oauth"
  /\ resp \in OAuthFailures
  /\ call' = IF call[c].ctx = "auth"
             THEN [AfterRefresh(c, FALSE) EXCEPT ![c].failed = TRUE]
             ELSE Fail(c, resp)
  /\ tokenCache' = emptyCache
  /\ UNCHANGED <<phase, config, client, userInfo, now, started, granted>>

\* refreshAccessToken resumed with a failed exchange: rethrown; caught by
\* ensureAuthentication, not by ensureValidToken
OAuthFailed(c, resp) ==
  /\ call[c].pc = "oauth"
  /\ resp \in OAuthFailures
  /\ call' = IF call[c].ctx = "auth"
             THEN [AfterRefresh(c, FALSE) EXCEPT ![c].failed = TRUE]
             ELSE Fail(c, resp)
  /\ UNCHANGED <<phase, config, client, tokenCache, userInfo, now, started, granted>>

\* OAuthGranted that sends get_users_api_token before the new access token
\* is installed on the client
OAuthGrantedNoInstall(c, expires_in) ==
  /\ call[c].pc = "oauth"
  /\ granted' = expires_in
  /\ tokenCache' = [accessToken |-> AccessTok(Latest),
                    apiToken |-> Aged(tokenCache.apiToken),
                    expiresAt |-> ExpiryOf(now, expires_in),
                    lastRefresh |-> Num(now)]
  /\ client' = [client EXCEPT !.token = Aged(@)]
  /\ call' = [d \in Calls |->
               IF d = c
               THEN [call[c] EXCEPT !.pc = "apiToken", !.tok = Aged(client.token)]
               ELSE [call[d] EXCEPT !.tok = Aged(@), !.bearer = Aged(@)]]
  /\ UNCHANGED <<phase, config, userInfo, now, started>>

\* OAuthGranted that keeps an expiry that is already cached
OAuthGrantedKeepsExpiry(c, expires_in) ==
  /\ call[c].pc = "oauth"
  /\ granted' = expires_in
  /\ tokenCache' = [accessToken |-> AccessTok(Latest),
                    apiToken |-> Aged(tokenCache.apiToken),
                    expiresAt |-> IF tokenCache.expiresAt.t = "num"
                                  THEN tokenCache.expiresAt
                                  ELSE ExpiryOf(now, expires_in),
                    lastRefresh |-> Num(now)]
  /\ client' = [client EXCEPT !.token = AccessTok(Latest)]
  /\ call' = [d \in Calls |->
               IF d = c
               THEN [call[c] EXCEPT !.pc = "apiToken", !.tok = AccessTok(Latest)]
               ELSE [call[d] EXCEPT !.tok = Aged(@), !.bearer = Aged(@)]]
  /\ UNCHANGED <<phase, config, userInfo, now, started>>

\* OAuthGranted that caches the access token alone
OAuthGrantedTokenOnly(c, expires_in) ==
  /\ call[c].pc = "oauth"
  /\ granted' = expires_in
  /\ tokenCache' = [tokenCache EXCEPT !.accessToken = AccessTok(Latest),
                                      !.apiToken = Aged(@)]
  /\ client' = [client EXCEPT !.token = AccessTok(Latest)]
  /\ call' = [d \in Calls |->
               IF d = c
               THEN [call[c] EXCEPT !.pc = "apiToken", !.tok = AccessTok(Latest)]
               ELSE [call[d] EXCEPT !.tok = Aged(@), !.bearer = Aged(@)]]
  /\ UNCHANGED <<phase, config, userInfo, now, started>>

\* refreshAccessToken resumed with an access_token: cache it, install it on
\* the client, and send get_users_api_token
OAuthGranted(c, expires_in) ==
  /\ call[c].pc = "oauth"
  /\ granted' = expires_in
  /\ tokenCache' = [accessToken |-> AccessTok(Latest),
                    apiToken |-> Aged(tokenCache.apiToken),
                    expiresAt |-> ExpiryOf(now, expires_in),
                    lastRefresh |-> Num(now)]
  /\ client' = [client EXCEPT !.token = AccessTok(Latest)]
  /\ call' = [d \in Calls |->
               IF d = c
               THEN [call[c] EXCEPT !.pc = "apiToken", !.tok = AccessTok(Latest)]
               ELSE [call[d] EXCEPT !.tok = Aged(@), !.bearer = Aged(@)]]
  /\ UNCHANGED <<phase, config, userInfo, now, started>>

\* getApiToken resumed: an api_token is cached and get_users_edit is sent;
\* an error or a response without api_token is logged and ignored
ApiTokenResponse(c, resp) ==
  /\ call[c].pc = "apiToken"
  /\ IF resp = "ok"
     THEN /\ tokenCache' = [tokenCache EXCEPT !.apiToken = ApiTok(call[c].tok.age)]
          /\ call' = [call EXCEPT ![c].pc = "userInfo"]
     ELSE /\ call' = AfterRefresh(c, TRUE)
          /\ UNCHANGED tokenCache
  /\ UNCHANGED <<phase, config, client, userInfo, now, started, granted>>

\* UserInfoResponse that lets the error of the profile request fail the call
UserInfoResponseFatal(c, resp) ==
  /\ call[c].pc = "userInfo"
  /\ userInfo' = IF resp = "ok" THEN "profile" ELSE userInfo
  /\ call' = IF resp = "err" THEN Fail(c, "profileErr") ELSE AfterRefresh(c, FALSE)
  /\ UNCHANGED <<phase, config, client, tokenCache, now, started, granted>>

\* fetchUserInfo resumed
UserInfoResponse(c, resp) ==
  /\ call[c].pc = "userInfo"
  /\ userInfo' = CASE resp = "ok" -> "profile"
                   [] resp = "empty" -> userInfo
                   [] OTHER -> IF TruthyStr(config["username"]) THEN "minimal" ELSE userInfo
  /\ call' = AfterRefresh(c, FALSE)
  /\ UNCHANGED <<phase, config, client, tokenCache, now, started, granted>>

\* ensureValidToken that gives up once an exchange of the call has failed
ensureValidTokenLockout(c) ==
  /\ call[c].pc = "ensureValid"
  /\ IF noOAuth(config) \/ isTokenValid(tokenCache, now) \/ call[c].nEx > 0
     THEN call' = [call EXCEPT ![c].pc = "validate"]
     ELSE SendExchange(c, "valid")
  /\ UNCHANGED <<phase, config, client, tokenCache, userInfo, now, started, granted>>

\* ensureValidToken that refreshes whatever isTokenValid says
ensureValidTokenAlways(c) ==
  /\ call[c].pc = "ensureValid"
  /\ IF noOAuth(config)
     THEN call' = [call EXCEPT ![c].pc = "validate"]
     ELSE SendExchange(c, "valid")
  /\ UNCHANGED <<phase, config, client, tokenCache, userInfo, now, started, granted>>

\* callModularTool resumed after ensureClient: ensureValidToken
ensureValidToken(c) ==
  /\ call[c].pc = "ensureValid"
  /\ IF noOAuth(config) \/ isTokenValid(tokenCache, now)
     THEN call' = [call EXCEPT ![c].pc = "validate"]
     ELSE SendExchange(c, "valid")
  /\ UNCHANGED <<phase, config, client, tokenCache, userInfo, now, started, granted>>

\* expiresAt - now in JavaScript numbers: null counts as 0, NaN stays NaN
timeUntilExpiry(cache, t) ==
  CASE cache.expiresAt.t = "num" -> Num(cache.expiresAt.v - t)
    [] cache.expiresAt.t = "null" -> Num(0 - t)
    [] OTHER -> NaN

\* Math.floor(x / d) for a positive d: NaN stays NaN
Floor(x, d) == IF x.t = "num" THEN Num(x.v \div d) ELSE NaN

\* x % d: NaN stays NaN
Mod(x, d) == IF x.t = "num" THEN Num(x.v % d) ELSE NaN

\* getTokenStatus: the text as its kind and the numbers printed in it.
\* A comparison with NaN is false
getTokenStatus(cache, t) ==
  IF ~Truthy(cache.accessToken)
  THEN [text |-> "No token cached", h |-> nullNum, m |-> nullNum]
  ELSE LET left == timeUntilExpiry(cache, t)
           minutes == Floor(left, 1000 * 60)
           hours == Floor(minutes, 60)
       IN  IF left.t = "num" /\ left.v <= 0
           THEN [text |-> "Token expired", h |-> nullNum, m |-> nullNum]
           ELSE IF hours.t = "num" /\ hours.v > 0
           THEN [text |-> "Token valid for Xh Ym", h |-> hours, m |-> Mod(minutes, 60)]
           ELSE [text |-> "Token valid for Ym", h |-> nullNum, m |-> minutes]

\* setAppropriateToken that prefers the access token
setAppropriateTokenAccessFirst(cache, installed) ==
  IF Truthy(cache.accessToken) THEN cache.accessToken
  ELSE IF Truthy(cache.apiToken) THEN cache.apiToken
  ELSE installed

\* the bearer setAppropriateToken installs on the client
setAppropriateToken(cache, installed) ==
  IF Truthy(cache.apiToken) THEN cache.apiToken
  ELSE IF Truthy(cache.accessToken) THEN cache.accessToken
  ELSE installed

\* the method argument of a tool call: absent, not one of the tool's methods,
\* listed but no function of the module, or fine
Args == {"missing", "invalid", "unresolved", "ok"}

\* callModularTool that does not validate the method argument
callModularToolUnvalidated(c, arg, priv) ==
  /\ call[c].pc = "validate"
  /\ priv => arg = "ok"
  /\ client' = [client EXCEPT !.token = setAppropriateToken(tokenCache, client.token)]
  /\ IF arg = "unresolved"
     THEN call' = Fail(c, "unresolved")
     ELSE call' = [call EXCEPT ![c].pc = "api", ![c].priv = priv, ![c].sent = TRUE,
                               ![c].bearer = client'.token]
  /\ UNCHANGED <<phase, config, tokenCache, userInfo, now, started, granted>>

\* callModularTool resumed after ensureValidToken: validate the method,
\* install the bearer and send the API request.  The arguments are first
\* read here, so they are drawn here; priv tells whether the operation is
\* one that needs an authenticated user, which the code never looks at
callModularTool(c, arg, priv) ==
  /\ call[c].pc = "validate"
  /\ priv => arg = "ok"
  /\ IF arg \in {"missing", "invalid"}
     THEN /\ call' = Fail(c, arg)
          /\ UNCHANGED client
     ELSE /\ client' = [client EXCEPT !.token = setAppropriateToken(tokenCache, client.token)]
          /\ IF arg = "unresolved"
             THEN call' = Fail(c, "unresolved")
             ELSE call' = [call EXCEPT ![c].pc = "api", ![c].priv = priv, ![c].sent = TRUE,
                                       ![c].bearer = client'.token]
  /\ UNCHANGED <<phase, config, tokenCache, userInfo, now, started, granted>>

\* the API request is answered
ApiResponse(c, resp) ==
  /\ call[c].pc = "api"
  /\ call' = IF resp = "ok"
             THEN [call EXCEPT ![c] = [idleCall EXCEPT !.pc = "done", !.out = "ok"]]
             ELSE Fail(c, resp)
  /\ UNCHANGED <<phase, config, client, tokenCache, userInfo, now, started, granted>>

\* the requests other than tools/call
Handlers == {"tools/list", "resources/list", "resources/read", "prompts/list", "prompts/get"}

\* the handlers of those requests: they read this.tools and this.userInfo and
\* write no field of the server
ReadOnlyRequest(h) ==
  /\ phase = "running"
  /\ h \in Handlers
  /\ UNCHANGED vars

\* Tick with a timer that drops the cached tokens once they are not valid any more
TickEvicts ==
  /\ now < TickMs * (1 + MaxTicks)
  /\ now' = now + TickMs
  /\ tokenCache' = IF isTokenValid(tokenCache, now') THEN tokenCache ELSE emptyCache
  /\ UNCHANGED <<phase, config, client, userInfo, call, started, granted>>

\* time passes
Tick ==
  /\ now < TickMs * (1 + MaxTicks)
  /\ now' = now + TickMs
  /\ UNCHANGED <<phase, config, client, tokenCache, userInfo, call, started, granted>>

Next ==
  \/ \E argv \in [Fields -> FieldValues], env \in [Fields -> FieldValues] : mainValidating(argv, env)
  \/ \E argv \in [Fields -> FieldValues], env \in [Fields -> FieldValues] : mainServerConfig(argv, env)
  \/ \E c \in Calls, found \in BOOLEAN : CallTool(c, found)
  \/ \E c \in Calls, resp \in OAuthFailures : OAuthFailed(c, resp)
  \/ \E c \in Calls, e \in ExpiresInFields : OAuthGranted(c, e)
  \/ \E c \in Calls, resp \in {"ok", "empty", "err"} : ApiTokenResponse(c, resp)
  \/ \E c \in Calls, resp \in {"ok", "empty", "err"} : UserInfoResponse(c, resp)
  \/ \E c \in Calls : ensureValidToken(c)
  \/ \E c \in Calls, arg \in Args, priv \in BOOLEAN : callModularTool(c, arg, priv)
  \/ \E c \in Calls, resp \in {"ok", "apiHttpErr", "apiNetErr"} : ApiResponse(c, resp)
  \/ \E h \in Handlers : ReadOnlyRequest(h)
  \/ Tick

Spec == Init /\ [][Next]_vars

(* ---------------------------- properties ------------------------------- *)

\* OAuth credentials are configured
OAuthConfigured == config["clientId"] # "" /\ config["clientSecret"] # ""

\* the password-grant requests awaiting their answer
InFlight == {c \in Calls : call[c].pc = "oauth"}

\* call c runs ensureValidToken in this step
ValidTokenStep(c) == call[c].pc = "ensureValid" /\ call'[c].pc # "ensureValid"

\* call c sends a password-grant request in this step
SendsExchange(c) ==
  call[c].pc # "oauth" /\ call'[c].pc = "oauth" /\ call'[c].nEx = call[c].nEx + 1

\* call c is resumed with an access token in this step
GrantStep(c) == call[c].pc = "oauth" /\ call'[c].pc = "apiToken"

\* call c sends its API request in this step
DispatchStep(c) == call[c].pc = "validate" /\ call'[c].pc = "api"

\* C1: with OAuth configured, no tool call is answered with the error of a
\* failed password-grant exchange: the failure stays inside the token manager
C1_ExchangeFailureContained ==
  \A c \in Calls : call[c].pc = "done" => call[c].err \notin OAuthFailures

\* C2: isTokenValid at `now` is true iff an access token and an expiry instant
\* are cached and now < expiresAt - 5 minutes, that is iff the token has more
\* than 300000 ms left
C2_ValidIffBeyondBuffer ==
  isTokenValid(tokenCache, now)
    <=> /\ tokenCache.accessToken # null
        /\ tokenCache.expiresAt.t = "num"
        /\ tokenCache.expiresAt.v - now > 300000

\* a token with exactly five minutes left is cached and reported invalid
C2_ExactlyFiveMinutesLeft ==
  /\ tokenCache.accessToken # null
  /\ tokenCache.expiresAt.t = "num"
  /\ tokenCache.expiresAt.v - now = 300000
  /\ ~isTokenValid(tokenCache, now)

\* C3: at most one password-grant exchange is in flight at any time
C3_SingleFlight == Cardinality(InFlight) <= 1

\* every call that runs ensureValidToken with OAuth configured and an invalid
\* token sends a password-grant request
RetriesWhenInvalid ==
  \A c \in Calls :
    (ValidTokenStep(c) /\ OAuthConfigured /\ ~isTokenValid(tokenCache, now))
      => SendsExchange(c)

\* C4 as stated: every call that finds the token invalid retries the exchange,
\* and a successful answer leaves a token that isTokenValid reports valid
C4_SuccessLeavesValidToken ==
  [][/\ RetriesWhenInvalid
     /\ \A c \in Calls : GrantStep(c) => isTokenValid(tokenCache', now')]_vars

\* C4 amended: every call that finds the token invalid retries the exchange,
\* whatever failed before; a successful answer leaves its access token cached,
\* reported valid exactly when its expires_in is a number above 300 seconds
C4_NoLockout ==
  [][/\ RetriesWhenInvalid
     /\ \A c \in Calls : GrantStep(c) =>
          /\ tokenCache'.accessToken = call'[c].tok
          /\ tokenCache'.accessToken # null
          /\ isTokenValid(tokenCache', now') <=> (granted'.t = "num" /\ granted'.v > 300)]_vars

\* the exchange of ensureAuthentication failed, the retry of ensureValidToken
\* was answered and left a valid token
C4_RecoveredAfterFailure ==
  /\ \E c \in Calls : call[c].pc = "apiToken" /\ call[c].failed /\ call[c].nEx = 2
  /\ isTokenValid(tokenCache, now)

\* C5: a failed or empty api-token answer leaves the cached access token and
\* expiry as they are, and the call that refreshed is dispatched with the
\* cached access token as bearer
C5_ApiTokenFailureHarmless ==
  [][\A c \in Calls :
       /\ (call[c].pc = "apiToken" /\ call'[c].pc \notin {"apiToken", "userInfo"})
            => (tokenCache' = tokenCache /\ call'[c].out # "error")
       /\ (DispatchStep(c) /\ call[c].apiFail) => call'[c].bearer = tokenCache.accessToken]_vars

\* C6: an access token granted without expires_in is cached with
\* expiresAt = instant of the exchange + 3600 seconds
C6_MissingTtlDefaults ==
  (tokenCache.accessToken # null /\ granted = undefined)
    => tokenCache.expiresAt = Num(tokenCache.lastRefresh.v + 3600 * 1000)

\* the cache holds the token of an exchange answered d ms ago with expires_in 10
TenSecondToken(d) ==
  /\ tokenCache.accessToken # null
  /\ granted = Num(10)
  /\ tokenCache.lastRefresh.t = "num"
  /\ now = tokenCache.lastRefresh.v + d

\* C7 as stated: a call handled 4 s after an exchange that granted 10 s sends
\* no request; a call handled 6 s after it sends exactly one
C7_ReusedAtFourSeconds ==
  [][\A c \in Calls :
       /\ (ValidTokenStep(c) /\ call[c].nEx = 0 /\ OAuthConfigured /\ TenSecondToken(4000))
            => (call'[c].pc = "validate" /\ call'[c].nEx = 0)
       /\ (ValidTokenStep(c) /\ call[c].nEx = 0 /\ OAuthConfigured /\ TenSecondToken(6000))
            => (SendsExchange(c) /\ call'[c].nEx = 1)]_vars

\* C7 amended: a token granted for 10 s is inside the five-minute buffer from
\* the start, so a call handled 4 s after the exchange sends exactly one new
\* request, as does a call handled 6 s after it
C7_RefreshedAtFourAndSixSeconds ==
  [][\A c \in Calls : \A d \in {4000, 6000} :
       (ValidTokenStep(c) /\ call[c].nEx = 0 /\ OAuthConfigured /\ TenSecondToken(d))
         => (SendsExchange(c) /\ call'[c].nEx = 1)]_vars

\* a call handled 4 s after the exchange has sent its one request
C7_ExchangeAtFourSeconds ==
  \E c \in Calls :
    /\ call[c].pc = "oauth"
    /\ call[c].ctx = "valid"
    /\ call[c].nEx = 1
    /\ TenSecondToken(4000)

\* the credential fields that are set
SetFields == {f \in Fields : config[f] # ""}

\* C8: a configuration with some but not all of the four credential fields is
\* rejected at start-up and serves no call; none or all four are accepted
C8_PartialConfigRejected ==
  /\ phase = "running" => SetFields \in {{}, Fields}
  /\ phase = "exited" => SetFields \notin {{}, Fields}
  /\ started > 0 => phase = "running"

\* C9: an operation that requires authentication is never sent to the API
\* without a credential
C9_PrivilegedNeedsCredential ==
  \A c \in Calls : (call[c].pc = "api" /\ call[c].priv) => call[c].bearer # null

\* C10: without a client id or without a client secret no password-grant or
\* api-token request is ever made, the cache and userInfo stay absent and
\* every API request goes out without a bearer
C10_NoOAuthNoCredential ==
  (phase = "running" /\ (config["clientId"] = "" \/ config["clientSecret"] = ""))
    => /\ granted.t = "none"
       /\ tokenCache = emptyCache
       /\ userInfo = "null"
       /\ client.token = null
       /\ \A c \in Calls : /\ call[c].pc \notin {"oauth", "apiToken", "userInfo"}
                           /\ call[c].nEx = 0
                           /\ call[c].sent => call[c].bearer = null

\* a client id without a client secret: an API request is out, unauthenticated
C10_ReadOnlyDispatch ==
  /\ config["clientId"] # ""
  /\ config["clientSecret"] = ""
  /\ \E c \in Calls : call[c].pc = "api" /\ call[c].sent

\* C11: handling one tool call sends at most one password-grant request
C11_AtMostOneExchange == \A c \in Calls : call[c].nEx <= 1

\* call c is resumed with a failed password-grant exchange in this step
ExchangeFailedStep(c) == call[c].pc = "oauth" /\ call'[c].pc \notin {"oauth", "apiToken"}

\* C12: a failed password-grant exchange leaves the token cache cleared:
\* access token, api token, expiresAt and lastRefresh are all absent
C12_FailureClearsCache ==
  [][\A c \in Calls : ExchangeFailedStep(c) => tokenCache' = emptyCache]_vars

\* C13: a cached api token was obtained with the access token that is cached
C13_ApiTokenOfCurrentAccessToken ==
  tokenCache.apiToken # null
    => /\ tokenCache.accessToken # null
       /\ tokenCache.apiToken.age = tokenCache.accessToken.age

\* C14: a cached access token whose expiry is absent or not a number is never
\* reported valid, and every call that runs ensureValidToken on it with OAuth
\* configured sends a password-grant request
C14_UnknownExpiryNeverValid ==
  /\ [](tokenCache.expiresAt.t # "num" => ~isTokenValid(tokenCache, now))
  /\ [][\A c \in Calls :
          (/\ ValidTokenStep(c)
           /\ OAuthConfigured
           /\ tokenCache.accessToken # null
           /\ tokenCache.expiresAt.t # "num") => SendsExchange(c)]_vars

\* the only call so far was granted a token without expires_in and, having
\* cached it, has sent a second request from ensureValidToken
C14_RefreshAfterUnknownExpiry ==
  /\ started = 1
  /\ tokenCache.accessToken # null
  /\ tokenCache.expiresAt = NaN
  /\ \E c \in Calls : call[c].pc = "oauth" /\ call[c].ctx = "valid" /\ call[c].nEx = 2

\* C15: a token-endpoint answer without access_token is one of the failed
\* exchanges: the step that resumes the call with a failed exchange changes no
\* field of the token cache and not the bearer installed on the client, and
\* sends neither the api-token request nor the profile request
C15_NoAccessTokenChangesNothing ==
  [][\A c \in Calls :
       ExchangeFailedStep(c)
         => /\ tokenCache' = tokenCache
            /\ client' = client
            /\ userInfo' = userInfo
            /\ call'[c].pc \in {"ensureValid", "done"}]_vars

\* a call was answered with the error of a response without access_token
\* while a token of an earlier exchange is cached and installed
C15_NoAccessTokenAfterGrant ==
  /\ tokenCache.accessToken # null
  /\ client.token # null
  /\ \E c \in Calls : call[c].pc = "done" /\ call[c].err = "noAccessToken"

\* client id and client secret are configured, username or password is not
PasswordGrantIncomplete ==
  OAuthConfigured /\ (config["username"] = "" \/ config["password"] = "")

\* C16: with client id and client secret configured but username or password
\* missing, every call of an existing tool is answered with the 'Resource
\* Owner Password Credentials Flow requires both username and password' error
\* as soon as it is handled; no client is created, no password-grant request
\* is sent and no API operation is dispatched, however many calls are made
C16_IncompletePasswordGrantRejected ==
  (phase = "running" /\ PasswordGrantIncomplete)
    => /\ ~client.made
       /\ client.token = null
       /\ tokenCache = emptyCache
       /\ granted.t = "none"
       /\ \A c \in Calls :
            /\ call[c].pc \in {"idle", "done"}
            /\ call[c].nEx = 0
            /\ ~call[c].sent
            /\ call[c].pc = "done"
                 => \/ call[c].out = "error" /\ call[c].err = "config"
                    \/ call[c].out = "thrown" /\ call[c].err = "toolNotFound"

\* the second call made with a client id and a client secret but no username
\* was answered with the configuration error
C16_SecondCallRejected ==
  /\ phase = "running"
  /\ PasswordGrantIncomplete
  /\ config["username"] = ""
  /\ started = 2
  /\ \E c \in Calls : call[c].pc = "done" /\ call[c].err = "config"

\* the method argument of a request: absent, or a name
MethodArgs == {"", "get_observations"}

\* the data of an error response: absent, or a body
ResponseData == {"", "body"}

\* C17: a call of an existing tool that fails, for whatever reason, is
\* answered and not thrown; the text of the answer is 'Error calling
\* <tool>.<method or unknown>: ' followed by the error's message, which for an
\* error with an upstream response holds the HTTP status; the server keeps
\* running and goes on accepting calls
C17_FailureIsAnswered ==
  \A c \in Calls :
    (call[c].pc = "done" /\ call[c].err # "toolNotFound")
      => /\ call[c].out \in {"ok", "error"}
         /\ phase = "running"
         /\ started < MaxCalls => ENABLED (\E d \in Calls : CallTool(d, TRUE))
         /\ call[c].out = "error" =>
              \A method \in MethodArgs, data \in ResponseData :
                LET text == ErrorText("tool", method, call[c].err, data) IN
                  /\ SubSeq(text, 1, 5)
                       = <<"Error calling ", "tool", ".",
                           IF method = "" THEN "unknown" ELSE method, ": ">>
                  /\ IF call[c].err \in {"httpErr", "apiHttpErr"}
                     THEN "status" \in {text[i] : i \in 6..Len(text)}
                     ELSE SubSeq(text, 6, Len(text)) = <<call[c].err>>

\* a call was answered with the HTTP error of the token endpoint and the
\* server accepts the next call
C17_AnsweredHttpError ==
  /\ \E c \in Calls : call[c].pc = "done" /\ call[c].out = "error" /\ call[c].err = "httpErr"
  /\ started < MaxCalls
  /\ ENABLED (\E d \in Calls : CallTool(d, TRUE))

\* C18: getTokenStatus reports 'No token cached' iff no access token is
\* cached; otherwise 'Token expired' iff now >= expiresAt; otherwise, with m
\* the whole minutes left, 'Token valid for Xh Ym' with X = m div 60 >= 1 and
\* Y = m mod 60, or 'Token valid for Ym' with Y = m < 60.  A token that
\* isTokenValid accepts is never reported absent or expired
C18_StatusFromCache ==
  LET s == getTokenStatus(tokenCache, now)
      m == (tokenCache.expiresAt.v - now) \div 60000
  IN  /\ s.text = "No token cached" <=> tokenCache.accessToken = null
      /\ tokenCache.accessToken # null
           => (s.text = "Token expired"
                 <=> (tokenCache.expiresAt.t = "num" /\ now >= tokenCache.expiresAt.v))
      /\ s.text = "Token valid for Xh Ym"
           => /\ tokenCache.expiresAt.t = "num"
              /\ s.h = Num(m \div 60) /\ m \div 60 >= 1
              /\ s.m = Num(m % 60)
      /\ s.text = "Token valid for Ym"
           => /\ tokenCache.expiresAt.t = "num"
              /\ s.m = Num(m) /\ m < 60
      /\ isTokenValid(tokenCache, now)
           => s.text \in {"Token valid for Xh Ym", "Token valid for Ym"}

\* the cache holds the token of the latest successful exchange, which was
\* answered with a TTL above 300 seconds
LongLivedToken ==
  /\ tokenCache.accessToken # null
  /\ tokenCache.lastRefresh.t = "num"
  /\ granted.t = "num"
  /\ granted.v > 300

\* the first instant at which that token is refreshed: T + t - 300 s
RefreshDue == tokenCache.lastRefresh.v + granted.v * 1000 - 300 * 1000

\* C19: after an exchange at T that granted t > 300 seconds, a call handled
\* before T + t - 300 s sends no password-grant request and leaves the token
\* cache as it is; a call handled at or after that instant sends one before
\* it goes on to its operation
C19_CacheHitWindow ==
  [][\A c \in Calls :
       /\ (call[c].pc \in {"idle", "done"} /\ call'[c].pc \notin {"idle", "done"}
             /\ OAuthConfigured /\ LongLivedToken)
            => (call'[c].nEx = 0 /\ tokenCache' = tokenCache)
       /\ (ValidTokenStep(c) /\ OAuthConfigured /\ LongLivedToken)
            => IF now < RefreshDue
               THEN /\ call'[c].pc = "validate"
                    /\ call'[c].nEx = call[c].nEx
                    /\ tokenCache' = tokenCache
               ELSE SendsExchange(c)]_vars

\* the only call so far was granted 302 seconds at T and, resumed at T + 2 s,
\* the first instant outside the window, has sent a new request
C19_RefreshAtBoundary ==
  /\ started = 1
  /\ LongLivedToken
  /\ granted = Num(302)
  /\ now = RefreshDue
  /\ \E c \in Calls : call[c].pc = "oauth" /\ call[c].ctx = "valid" /\ call[c].nEx = 2

\* C20: within one refresh the password-grant request comes first; the
\* api-token request is sent only in the step that has stored the granted
\* token and its expiry and installed the token on the client, and goes out
\* with that token; the profile request is sent only after the api-token
\* request was answered; a failed exchange is followed by none of them
C20_RefreshOrder ==
  [][\A c \in Calls :
       /\ (call[c].pc # "oauth" /\ call'[c].pc = "oauth")
            => call[c].pc \in {"idle", "done", "ensureValid"}
       /\ (call[c].pc # "apiToken" /\ call'[c].pc = "apiToken")
            => /\ call[c].pc = "oauth"
               /\ tokenCache'.accessToken = AccessTok(Latest)
               /\ tokenCache'.expiresAt = ExpiryOf(now, granted')
               /\ tokenCache'.lastRefresh = Num(now)
               /\ client'.token = tokenCache'.accessToken
               /\ call'[c].tok = client'.token
       /\ (call[c].pc # "userInfo" /\ call'[c].pc = "userInfo")
            => call[c].pc = "apiToken"
       /\ ExchangeFailedStep(c)
            => /\ tokenCache'.accessToken = tokenCache.accessToken
               /\ tokenCache'.expiresAt = tokenCache.expiresAt
               /\ client'.token = client.token
               /\ call'[c].pc \notin {"apiToken", "userInfo"}]_vars

\* all four steps of a refresh have happened: the profile request is out,
\* the api token obtained with the newly installed access token is cached
C20_ProfileRequested ==
  \E c \in Calls :
    /\ call[c].pc = "userInfo"
    /\ call[c].tok = AccessTok(Latest)
    /\ tokenCache.accessToken = AccessTok(Latest)
    /\ tokenCache.apiToken = ApiTok(Latest)

C22_LastWriteWins ==
  tokenCache.accessToken # null
    => /\ tokenCache.accessToken = AccessTok(Latest)
       /\ granted.t # "none"
       /\ tokenCache.lastRefresh.t = "num"
       /\ tokenCache.lastRefresh.v <= now
       /\ tokenCache.expiresAt = ExpiryOf(tokenCache.lastRefresh.v, granted)

\* two refreshes overlap: both calls have been granted a token and wait for
\* their api token; the cache holds the token of the one answered last
C22_OverlappingRefreshes ==
  \E c, d \in Calls :
    /\ call[c].pc = "apiToken" /\ call[c].tok = AccessTok(Older)
    /\ call[d].pc = "apiToken" /\ call[d].tok = AccessTok(Latest)
    /\ tokenCache.accessToken = call[d].tok

\* C23: an API request goes out with the cached api token as bearer when one
\* is cached, else with the cached access token when one is cached, else with
\* the bearer installed before, which is none when no exchange ever succeeded;
\* the access token is never the bearer while an api token is cached
C23_BearerPrecedence ==
  [][\A c \in Calls :
       DispatchStep(c)
         => /\ call'[c].sent
            /\ call'[c].bearer = client'.token
            /\ call'[c].bearer =
                 IF tokenCache.apiToken # null THEN tokenCache.apiToken
                 ELSE IF tokenCache.accessToken # null THEN tokenCache.accessToken
                 ELSE client.token
            /\ granted.t = "none" => call'[c].bearer = null
            /\ call'[c].bearer.kind = "access" => tokenCache.apiToken = null]_vars

\* a request is out with the cached api token, an access token being cached too
C23_ApiTokenPreferred ==
  \E c \in Calls :
    /\ call[c].pc = "api"
    /\ call[c].bearer.kind = "api"
    /\ call[c].bearer = tokenCache.apiToken
    /\ tokenCache.accessToken # null

\* C24: userInfo is present only while an api token is cached; the step that
\* resumes a call with a failed profile request changes no cached token or
\* expiry, lets the call go on without an error and, a username being
\* configured, leaves the minimal record as userInfo
C24_ProfileFailureNonFatal ==
  /\ [](userInfo # "null" => tokenCache.apiToken # null)
  /\ [][\A c \in Calls :
          /\ (call[c].pc # "userInfo" /\ call'[c].pc = "userInfo")
               => (call[c].pc = "apiToken" /\ tokenCache'.apiToken # null)
          /\ UserInfoResponse(c, "err")
               => /\ tokenCache' = tokenCache
                  /\ client' = client
                  /\ call'[c].pc \in {"ensureValid", "validate"}
                  /\ call'[c].out = "-"
                  /\ config["username"] # "" => userInfo' = "minimal"]_vars

\* the only call so far had its profile request fail and has gone on to send
\* its API request; userInfo is the minimal record
C24_MinimalProfileThenDispatch ==
  /\ started = 1
  /\ userInfo = "minimal"
  /\ tokenCache.apiToken # null
  /\ \E c \in Calls : call[c].pc = "api"

\* the errors only a call with a listed method can end with
ListedMethodErrors == {"unresolved", "apiHttpErr", "apiNetErr"}

EndsBeforeValidation(c) ==
  /\ \/ call[c].pc = "oauth"
     \/ /\ call[c].pc \in {"idle", "done"}
        /\ started' # started
        /\ \A d \in Calls : d < c => call[d].pc \notin {"idle", "done"}
  /\ call'[c].pc = "done"
  /\ call'[c].out = "error"

C26_OneClient ==
  /\ [](Cardinality({c \in Calls : call[c].ctx = "auth"}) <= 1)
  /\ [][/\ client.made => (client'.made /\ (client'.token = null => client.token = null))
        /\ \A c \in Calls :
             /\ (call[c].ctx # "auth" /\ call'[c].ctx = "auth")
                  => (~client.made /\ client'.made /\ call[c].pc \in {"idle", "done"})
             /\ (SendsExchange(c) /\ client.made)
                  => (call[c].pc = "ensureValid" /\ call'[c].ctx = "valid")]_vars

\* two calls interleave: the one that created the client waits for the
\* exchange of ensureAuthentication, the other for one of ensureValidToken
C26_SecondCallSharesClient ==
  /\ client.made
  /\ \E c, d \in Calls :
       /\ call[c].pc = "oauth" /\ call[c].ctx = "auth"
       /\ call[d].pc = "oauth" /\ call[d].ctx = "valid"

\* C27: with an access token cached, expiresAt and lastRefresh are not null,
\* so getTokenStatus reads no null expiresAt for a cached token; none of the
\* three is ever cleared, and lastRefresh never decreases
C27_WrittenTogether ==
  /\ [](/\ tokenCache.accessToken # null
             => (tokenCache.expiresAt.t # "null" /\ tokenCache.lastRefresh.t = "num")
        /\ tokenCache.accessToken = null
             => (tokenCache.expiresAt.t = "null" /\ tokenCache.lastRefresh.t = "null"))
  /\ [][/\ tokenCache.accessToken # null => tokenCache'.accessToken # null
        /\ tokenCache.lastRefresh.t = "num"
             => /\ tokenCache'.lastRefresh.t = "num"
                /\ tokenCache'.lastRefresh.v >= tokenCache.lastRefresh.v]_vars

\* the only call so far was granted a token twice, the second time after the
\* clock had advanced: the cache was rewritten with a later lastRefresh
C27_RewrittenLater ==
  /\ started = 1
  /\ tokenCache.accessToken # null
  /\ tokenCache.lastRefresh.t = "num"
  /\ tokenCache.lastRefresh.v > TickMs
  /\ \E c \in Calls : call[c].pc = "apiToken" /\ call[c].nEx = 2 /\ ~call[c].failed
====
